---- MODULE Spec2Model ----
(***************************************************************************)
(* Process-facts acquisition of witr (src/internal/output/json.go).        *)
(*                                                                         *)
(* Five state machines share this module:                                  *)
(*   Spec          ReadProcess / GetProcessDetailedInfo / getFullProcess-  *)
(*                 Info / getInfoFromSnapshot (Windows tiered acquisition) *)
(*   SpecExt       ReadExtendedInfo and its helpers (darwin)               *)
(*   SpecFD        the line loop of collectDarwinFDs (darwin)              *)
(*   SpecContainer detectContainer                                         *)
(*   SpecGit       detectGitInfo                                           *)
(*                                                                         *)
(* Go strings are sequences of one-character strings; a nil slice and an   *)
(* empty slice are distinct values (NilSlice, EmptySlice).                 *)
(***************************************************************************)
EXTENDS Integers, Sequences, FiniteSets, TLC

\* ------------------------------------------------------------------ bounds
\* PIDs the target and the process table are drawn from: 1..MaxPid
MaxPid == 2

\* ------------------------------------------------------- string utilities
NUL == "NUL"
Sep == "\\"

RECURSIVE UTF16ToString(_)
\* syscall.UTF16ToString: the characters before the first NUL
UTF16ToString(buf) ==
    IF buf = <<>> \/ Head(buf) = NUL THEN <<>>
    ELSE <<Head(buf)>> \o UTF16ToString(Tail(buf))

\* os.IsPathSeparator on Windows
IsPathSeparator(c) == c \in {Sep, "/"}

\* filepath.VolumeName for drive-letter paths: "C:" or ""
VolumeName(path) ==
    IF Len(path) >= 2 /\ path[2] = ":" THEN SubSeq(path, 1, 2) ELSE <<>>

\* index of the last separator of s, 0 when it has none
LastSepIndex(s) ==
    IF \E i \in 1..Len(s) : IsPathSeparator(s[i])
    THEN CHOOSE i \in 1..Len(s) :
            /\ IsPathSeparator(s[i])
            /\ \A j \in (i + 1)..Len(s) : ~IsPathSeparator(s[j])
    ELSE 0

RECURSIVE StripTrailingSeps(_)
StripTrailingSeps(s) ==
    IF s # <<>> /\ IsPathSeparator(s[Len(s)])
    THEN StripTrailingSeps(SubSeq(s, 1, Len(s) - 1))
    ELSE s

\* filepath.Base: trailing separators and the volume are dropped, then the
\* part after the last separator; a separator when nothing is left
Base(path) ==
    IF path = <<>> THEN <<".">>
    ELSE LET p1 == StripTrailingSeps(path)
             p2 == SubSeq(p1, Len(VolumeName(p1)) + 1, Len(p1))
             p3 == SubSeq(p2, LastSepIndex(p2) + 1, Len(p2))
         IN IF p3 = <<>> THEN <<Sep>> ELSE p3

RECURSIVE ElementsAcc(_, _, _)
\* the non-empty, non-"." elements between separators
ElementsAcc(s, cur, acc) ==
    LET flush == IF cur = <<>> \/ cur = <<".">> THEN acc ELSE Append(acc, cur) IN
    IF s = <<>> THEN flush
    ELSE IF IsPathSeparator(Head(s)) THEN ElementsAcc(Tail(s), <<>>, flush)
    ELSE ElementsAcc(Tail(s), Append(cur, Head(s)), acc)

RECURSIVE JoinElements(_)
JoinElements(es) ==
    IF es = <<>> THEN <<>>
    ELSE IF Len(es) = 1 THEN es[1]
    ELSE es[1] \o <<Sep>> \o JoinElements(Tail(es))

\* filepath.Clean on paths without ".." elements: separators are collapsed
\* and normalised, "." elements and trailing separators dropped
Clean(path) ==
    LET vol == VolumeName(path)
        rest == SubSeq(path, Len(vol) + 1, Len(path))
        rooted == rest # <<>> /\ IsPathSeparator(rest[1])
        out == (IF rooted THEN <<Sep>> ELSE <<>>)
               \o JoinElements(ElementsAcc(rest, <<>>, <<>>))
    IN vol \o (IF out = <<>> THEN <<".">> ELSE out)

\* filepath.Dir: all but the last element of path, cleaned
Dir(path) ==
    LET vol == VolumeName(path)
        rest == SubSeq(path, Len(vol) + 1, Len(path))
    IN vol \o Clean(SubSeq(rest, 1, LastSepIndex(rest)))

\* filepath.Join(dir, name) for a non-empty dir
PathJoin(dir, name) == Clean(dir \o <<Sep>> \o name)

\* whitespace as strings.Fields / strings.TrimSpace see it
IsSpace(c) == c \in {" ", "\n", "\t"}

RECURSIVE TrimLeft(_)
TrimLeft(s) == IF s # <<>> /\ IsSpace(Head(s)) THEN TrimLeft(Tail(s)) ELSE s

RECURSIVE TrimRight(_)
TrimRight(s) ==
    IF s # <<>> /\ IsSpace(s[Len(s)]) THEN TrimRight(SubSeq(s, 1, Len(s) - 1))
    ELSE s

\* strings.TrimSpace
TrimSpace(s) == TrimRight(TrimLeft(s))

RECURSIVE FieldsAcc(_, _, _)
FieldsAcc(s, cur, acc) ==
    IF s = <<>> THEN (IF cur = <<>> THEN acc ELSE Append(acc, cur))
    ELSE IF IsSpace(Head(s))
         THEN FieldsAcc(Tail(s), <<>>, IF cur = <<>> THEN acc ELSE Append(acc, cur))
         ELSE FieldsAcc(Tail(s), Append(cur, Head(s)), acc)

\* strings.Fields: the maximal runs of non-space characters
Fields(s) == FieldsAcc(s, <<>>, <<>>)

RECURSIVE LinesAcc(_, _, _)
LinesAcc(s, cur, acc) ==
    IF s = <<>> THEN (IF cur = <<>> THEN acc ELSE Append(acc, cur))
    ELSE IF Head(s) = "\n"
         THEN LinesAcc(Tail(s), <<>>, Append(acc, Append(cur, "\n")))
         ELSE LinesAcc(Tail(s), Append(cur, Head(s)), acc)

\* strings.Lines: the lines of s, each with its terminating newline
Lines(s) == LinesAcc(s, <<>>, <<>>)

RECURSIVE Join(_, _)
\* strings.Join
Join(fs, sep) ==
    IF fs = <<>> THEN <<>>
    ELSE IF Len(fs) = 1 THEN fs[1]
    ELSE fs[1] \o sep \o Join(Tail(fs), sep)

\* strings.Contains
Contains(s, sub) ==
    \E i \in 0..(Len(s) - Len(sub)) : SubSeq(s, i + 1, i + Len(sub)) = sub

\* strings.HasPrefix
HasPrefix(s, pre) == Len(s) >= Len(pre) /\ SubSeq(s, 1, Len(pre)) = pre

UpperChars == <<"A", "B", "C", "D", "E", "F", "G", "H", "I", "J", "K", "L", "M",
                "N", "O", "P", "Q", "R", "S", "T", "U", "V", "W", "X", "Y", "Z">>
LowerChars == <<"a", "b", "c", "d", "e", "f", "g", "h", "i", "j", "k", "l", "m",
                "n", "o", "p", "q", "r", "s", "t", "u", "v", "w", "x", "y", "z">>

ToLowerChar(c) ==
    IF \E i \in 1..Len(UpperChars) : UpperChars[i] = c
    THEN LowerChars[CHOOSE i \in 1..Len(UpperChars) : UpperChars[i] = c]
    ELSE c

\* strings.ToLower
ToLower(s) == [i \in 1..Len(s) |-> ToLowerChar(s[i])]

DigitChars == <<"0", "1", "2", "3", "4", "5", "6", "7", "8", "9">>
IsDigit(c) == \E i \in 1..Len(DigitChars) : DigitChars[i] = c
DigitVal(c) == (CHOOSE i \in 1..Len(DigitChars) : DigitChars[i] = c) - 1

RECURSIVE DigitsVal(_, _)
DigitsVal(s, acc) ==
    IF s = <<>> THEN acc ELSE DigitsVal(Tail(s), 10 * acc + DigitVal(Head(s)))

\* strconv.ParseUint(s, 10, 64): fails on "", signs and non-digits
\* (the modelled inputs stay far below 2^64)
ParseUint(s) ==
    IF s # <<>> /\ \A i \in 1..Len(s) : IsDigit(s[i])
    THEN [ok |-> TRUE, val |-> DigitsVal(s, 0)]
    ELSE [ok |-> FALSE, val |-> 0]

\* strconv.Atoi: an optional sign, then digits
Atoi(s) ==
    LET signed == s # <<>> /\ Head(s) \in {"-", "+"}
        body == IF signed THEN Tail(s) ELSE s
        u == ParseUint(body)
    IN IF ~u.ok THEN [ok |-> FALSE, val |-> 0]
       ELSE [ok |-> TRUE, val |-> IF signed /\ Head(s) = "-" THEN 0 - u.val ELSE u.val]

\* ----------------------------------------------------- the inspected host
\* What the kernel holds for process p.
PPIDOf(p) == p - 1
ImageName(p) == IF p % 2 = 1 THEN <<"a">> ELSE <<"b">>
ImagePath(p) == <<"C", ":", Sep>> \o ImageName(p)
CmdlineOf(p) == ImagePath(p) \o <<" ", "-", "x">>
CwdOf(p) == <<"C", ":", Sep, "w">>
StartOf(p) == 100 + p

RECURSIVE SortedPids(_)
SortedPids(S) ==
    IF S = {} THEN <<>>
    ELSE LET m == CHOOSE x \in S : \A y \in S : x <= y
         IN <<m>> \o SortedPids(S \ {m})

\* PROCESSENTRY32 of process p; ExeFile is a NUL-terminated array
PROCESSENTRY32(p) ==
    [ProcessID |-> p, ParentProcessID |-> PPIDOf(p),
     ExeFile |-> ImageName(p) \o <<NUL, NUL>>]

\* the system-wide snapshot over the process table ps
SnapshotEntries(ps) ==
    LET s == SortedPids(ps) IN [i \in 1..Len(s) |-> PROCESSENTRY32(s[i])]

\* ------------------------------------------------------------ data model
NoErr == "nil"
NilSlice == [null |-> TRUE, items |-> <<>>]
EmptySlice == [null |-> FALSE, items |-> <<>>]

\* the zero value of Win32ProcessInfo (var info Win32ProcessInfo)
Win32ProcessInfo ==
    [PPID |-> 0, CommandLine |-> <<>>, Exe |-> <<>>, Cwd |-> <<>>,
     Env |-> NilSlice, StartedAt |-> 0]

\* model.Process{}: the fields ReadProcess fills from Win32ProcessInfo.
\* (ports, service, user, container, git and ExeDeleted come from
\* collaborators that do not read or write the acquisition state.)
ZeroProcess ==
    [PID |-> 0, PPID |-> 0, Command |-> <<>>, Cmdline |-> <<>>, Exe |-> <<>>,
     StartedAt |-> 0, WorkingDir |-> <<>>, Health |-> <<>>, Forked |-> <<>>,
     Env |-> NilSlice]

\* ------------------------------------------------------------ JSON output
\* encoding/json on a []string: a nil slice is null, any other an array
MarshalStrings(sl) ==
    IF sl.null THEN [kind |-> "null", items |-> <<>>]
    ELSE [kind |-> "array", items |-> sl.items]

\* ToEnvJSON: the envResult it marshals for r = [Process, Ancestry]
ToEnvJSON(r) ==
    LET procName == IF Len(r.Ancestry) > 0
                    THEN r.Ancestry[Len(r.Ancestry)].Command
                    ELSE IF r.Process.Command # <<>> THEN r.Process.Command
                    ELSE <<"u", "n", "k", "n", "o", "w", "n">>
    IN [PID |-> r.Process.PID, Process |-> procName,
        Command |-> r.Process.Cmdline, Env |-> MarshalStrings(r.Process.Env)]

\* ---------------------------------------------------------------- handles
\* A native handle is an index into handles; closes counts CloseHandle calls.
OpenHandle(hs, kind) == Append(hs, [kind |-> kind, closes |-> 0])
CloseHandle(hs, h) == [hs EXCEPT ![h].closes = @ + 1]

DeferCloseHandleDropped(ds, h) == ds
\* defer syscall.CloseHandle(h): push h on the frame's defer stack
DeferCloseHandle(ds, h) == Append(ds, h)

RECURSIVE RunDefers(_, _)
\* function return: the deferred calls run last-in first-out
RunDefers(hs, ds) ==
    IF ds = <<>> THEN hs
    ELSE RunDefers(CloseHandle(hs, ds[Len(ds)]), SubSeq(ds, 1, Len(ds) - 1))

\* ------------------------------------------------------- full-access tier
\* getProcessStartTime: zero time when GetProcessTimes fails
getProcessStartTime(p, ok) == IF ok THEN StartOf(p) ELSE 0

\* getProcessImageName: "" when QueryFullProcessImageNameW fails
getProcessImageName(p, ok) ==
    IF ok THEN UTF16ToString(ImagePath(p) \o <<NUL>>) ELSE <<>>

\* a UNICODE_STRING: Length in bytes, Buffer the remote characters
unicodeString(str, empty) ==
    IF empty THEN [Length |-> 0, Buffer |-> <<>>]
    ELSE [Length |-> 2 * Len(str), Buffer |-> str]

\* readUnicodeString: "" for a zero length and for a failed read
readUnicodeString(us, readOk) ==
    IF us.Length = 0 THEN <<>>
    ELSE IF ~readOk THEN <<>>
    ELSE UTF16ToString(SubSeq(us.Buffer, 1, us.Length \div 2))

\* The outcomes of the native calls one run of getFullProcessInfo makes.
FullOutcomes ==
    [timesOk : BOOLEAN, ntOk : BOOLEAN, pebZero : BOOLEAN, pebOk : BOOLEAN,
     paramsOk : BOOLEAN, empty : SUBSET {"cwd", "cmd", "exe"},
     readOk : SUBSET {"cwd", "cmd", "exe"}]

\* getFullProcessInfo(handle, pid, &info): the info it leaves and its error
getFullProcessInfo(p, inf, o) ==
    LET i1 == [inf EXCEPT !.StartedAt = getProcessStartTime(p, o.timesOk)]
        i2 == [i1 EXCEPT !.PPID = PPIDOf(p)]
        cwd == unicodeString(CwdOf(p), "cwd" \in o.empty)
        cmd == unicodeString(CmdlineOf(p), "cmd" \in o.empty)
        exe == unicodeString(ImagePath(p), "exe" \in o.empty)
        i3 == [i2 EXCEPT !.Cwd = readUnicodeString(cwd, "cwd" \in o.readOk),
                         !.CommandLine = readUnicodeString(cmd, "cmd" \in o.readOk),
                         !.Exe = readUnicodeString(exe, "exe" \in o.readOk),
                         !.Env = EmptySlice]
    IN  IF ~o.ntOk THEN [info |-> i1, err |-> "NtQueryInformationProcess failed"]
        ELSE IF o.pebZero THEN [info |-> i2, err |-> "PEB Base Address is 0"]
        ELSE IF ~o.pebOk
             THEN [info |-> i2, err |-> "failed to read PEB ProcessParameters address"]
        ELSE IF ~o.paramsOk
             THEN [info |-> i2, err |-> "failed to read ProcessParameters struct"]
        ELSE [info |-> i3, err |-> NoErr]

\* one of the reads getFullProcessInfo issued has failed
FullReadFailed(o) ==
    \/ ~o.ntOk
    \/ o.ntOk /\ ~o.pebZero /\ ~o.pebOk
    \/ o.ntOk /\ ~o.pebZero /\ o.pebOk /\ ~o.paramsOk
    \/ /\ o.ntOk /\ ~o.pebZero /\ o.pebOk /\ o.paramsOk
       /\ \E s \in {"cwd", "cmd", "exe"} : s \notin o.empty /\ s \notin o.readOk

AfterFullNoReturn(e) == "openLimited"
\* if err == nil { return info, nil }; otherwise fall through to limited
AfterFull(e) == IF e = NoErr THEN "return" ELSE "openLimited"

\* ------------------------------------------------- darwin resource sampler
\* program constants
MaxSamples == 10
MinLsofFields == 9
MinPsFields == 3
KiB == 1024

\* error values: the list of joined messages; nil is the empty list
NilErr == <<>>
\* errors.Join
ErrorsJoin(a, b) == a \o b

\* model.MemoryInfo{}; RSSMB and VMSMB are kept in units of 2^-20 MB
MemoryInfo == [RSS |-> 0, RSSMB |-> 0, VMS |-> 0, VMSMB |-> 0]

\* readDarwinMemory: ps is the outcome of `ps -o rss=,vsz=,thcount=`
readDarwinMemory(ps) ==
    IF ps.err
    THEN [memInfo |-> MemoryInfo, threadCount |-> 0, err |-> <<"ps rss/vsz">>]
    ELSE LET fields == Fields(TrimSpace(ps.out)) IN
         IF Len(fields) < MinPsFields
         THEN [memInfo |-> MemoryInfo, threadCount |-> 0,
               err |-> <<"ps rss/vsz output missing fields">>]
         ELSE LET rss == ParseUint(fields[1])
                  vms == ParseUint(fields[2])
                  thr == Atoi(fields[3])
                  m1 == IF rss.ok
                        THEN [MemoryInfo EXCEPT !.RSS = rss.val * KiB,
                                                !.RSSMB = rss.val * KiB]
                        ELSE MemoryInfo
                  m2 == IF vms.ok
                        THEN [m1 EXCEPT !.VMS = vms.val * KiB,
                                        !.VMSMB = vms.val * KiB]
                        ELSE m1
              IN [memInfo |-> m2,
                  threadCount |-> IF thr.ok THEN thr.val ELSE 0,
                  err |-> NilErr]

\* fmt's %-4s: left-justified, padded with spaces to width 4
PadRight4(w) == IF Len(w) >= 4 THEN w ELSE w \o [i \in 1..(4 - Len(w)) |-> " "]

\* summarizeLsofLine: "FD TYPE TARGET", or "" for a row of fewer than 9 fields
summarizeLsofLine(line) ==
    LET fields == Fields(line) IN
    IF Len(fields) < MinLsofFields THEN <<>>
    ELSE fields[4] \o <<" ">> \o PadRight4(fields[5]) \o <<" ">>
         \o Join(SubSeq(fields, 9, Len(fields)), <<" ">>)

\* var ( count int; samples []string; skipHdr = true )
FDLoopStart == [count |-> 0, samples |-> NilSlice, skipHdr |-> TRUE]

\* the body of collectDarwinFDs' loop for one line of lsof output
FDLoopBody(st, line) ==
    LET trimmed == TrimSpace(line) IN
    IF trimmed = <<>> THEN st
    ELSE IF st.skipHdr THEN [st EXCEPT !.skipHdr = FALSE]
    ELSE LET sample == summarizeLsofLine(trimmed) IN
         [st EXCEPT
            !.count = @ + 1,
            !.samples = IF Len(@.items) < MaxSamples /\ sample # <<>>
                        THEN [null |-> FALSE, items |-> Append(@.items, sample)]
                        ELSE @]

RECURSIVE FDLoop(_, _)
FDLoop(st, lines) ==
    IF lines = <<>> THEN st ELSE FDLoop(FDLoopBody(st, Head(lines)), Tail(lines))

\* collectDarwinFDs: lsof is the outcome of `lsof -nP -p pid`
collectDarwinFDs(lsof) ==
    IF lsof.err THEN [count |-> 0, samples |-> NilSlice, err |-> <<"lsof">>]
    ELSE LET st == FDLoop(FDLoopStart, Lines(lsof.out))
         IN [count |-> st.count, samples |-> st.samples, err |-> NilErr]

Unlimited == <<"u", "n", "l", "i", "m", "i", "t", "e", "d">>
Maxfiles == <<"m", "a", "x", "f", "i", "l", "e", "s">>

\* strings.EqualFold on letters
EqualFold(a, b) == ToLower(a) = ToLower(b)

\* parseLaunchctlLimitLine: the soft limit is the second field
parseLaunchctlLimitLine(line) ==
    LET fields == Fields(line) IN
    IF Len(fields) < 2 THEN [limit |-> 0, ok |-> FALSE]
    ELSE IF EqualFold(fields[2], Unlimited) THEN [limit |-> 0, ok |-> TRUE]
    ELSE LET u == ParseUint(fields[2]) IN
         IF ~u.ok THEN [limit |-> 0, ok |-> FALSE]
         ELSE [limit |-> u.val, ok |-> TRUE]

RECURSIVE LaunchctlScan(_)
\* the first maxfiles line that parses
LaunchctlScan(lines) ==
    IF lines = <<>> THEN [limit |-> 0, ok |-> FALSE]
    ELSE LET r == parseLaunchctlLimitLine(Head(lines)) IN
         IF Contains(Head(lines), Maxfiles) /\ r.ok THEN r
         ELSE LaunchctlScan(Tail(lines))

\* detectDarwinFileLimit: launchctl first, then the shell's ulimit, then 0
detectDarwinFileLimit(launchctl, ulimit) ==
    LET l == IF launchctl.err THEN [limit |-> 0, ok |-> FALSE]
             ELSE LaunchctlScan(Lines(launchctl.out))
        u == IF ulimit.err THEN [ok |-> FALSE, val |-> 0]
             ELSE ParseUint(TrimSpace(ulimit.out))
    IN IF l.ok THEN l.limit ELSE IF u.ok THEN u.val ELSE 0

RECURSIVE ChildrenLoop(_, _)
ChildrenLoop(children, lines) ==
    IF lines = <<>> THEN children
    ELSE LET trimmed == TrimSpace(Head(lines))
             v == Atoi(trimmed)
         IN ChildrenLoop(IF trimmed # <<>> /\ v.ok
                         THEN [null |-> FALSE, items |-> Append(children.items, v.val)]
                         ELSE children,
                         Tail(lines))

\* listDarwinChildren: nil on any pgrep failure
listDarwinChildren(pgrep) ==
    IF pgrep.err THEN NilSlice ELSE ChildrenLoop(NilSlice, Lines(pgrep.out))

\* ReadExtendedInfo: in holds the outcome of each external tool
ReadExtendedInfo(in) ==
    LET mem == readDarwinMemory(in.ps)
        fds == collectDarwinFDs(in.lsof)
    IN [memInfo |-> mem.memInfo, ioStats |-> <<>>, fileDescs |-> fds.samples,
        fdCount |-> fds.count,
        fdLimit |-> detectDarwinFileLimit(in.launchctl, in.ulimit),
        children |-> listDarwinChildren(in.pgrep),
        threadCount |-> mem.threadCount,
        err |-> IF mem.err # NilErr /\ fds.err # NilErr
                THEN ErrorsJoin(mem.err, fds.err)
                ELSE NilErr]

\* ---- the external tools' outputs
\* bounds of the sampled outputs
MaxPsLen == 5
MaxLsofLines == 12

PsChars == {"7", "x", " "}
PsTexts == UNION {[1..n -> PsChars] : n \in 0..MaxPsLen}

\* an exec.Command outcome: a failure, or the output text
CmdOut(texts) ==
    {[err |-> TRUE, out |-> <<>>]} \cup {[err |-> FALSE, out |-> t] : t \in texts}

LsofHeader == <<"C", " ", "P", " ", "U", " ", "F", " ", "T", " ", "D", " ",
                "S", " ", "N", " ", "N", "\n">>
BlankLine == <<" ", "\n">>

\* the k-th descriptor row: truncated rows have 8 fields; a whole row has 9,
\* or 10 (a target with a space in it) for even k
LsofEntry(k, truncated) ==
    <<"c", " ", "p", " ", "u", " ", ToString(k), " ", "R", " ", "d", " ", "s",
      " ", "n">>
    \o (IF truncated THEN <<>>
        ELSE IF k % 2 = 0 THEN <<" ", "f", " ", "g">> ELSE <<" ", "f">>)
    \o <<"\n">>

LsofTexts ==
    { <<>>,
      LsofHeader,
      LsofHeader \o LsofEntry(1, FALSE) \o BlankLine \o LsofEntry(2, FALSE),
      LsofHeader \o LsofEntry(1, TRUE) \o LsofEntry(2, FALSE) }

LaunchctlTexts ==
    { Maxfiles \o <<" ", "7", " ", "9", "\n">>,
      <<"\t">> \o Maxfiles \o <<" ", "U", "n", "l", "i", "m", "i", "t", "e", "d", "\n">> }

UlimitTexts == { <<"7", "\n">> }
PgrepTexts == { <<"7", "\n", "\n", "x", "\n", "9">> }

ExtInputs ==
    [ps : CmdOut(PsTexts), lsof : CmdOut(LsofTexts),
     launchctl : CmdOut(LaunchctlTexts), ulimit : CmdOut(UlimitTexts),
     pgrep : CmdOut(PgrepTexts)]

NoCmdOut == [err |-> TRUE, out |-> <<>>]
NoExtInput == [ps |-> NoCmdOut, lsof |-> NoCmdOut, launchctl |-> NoCmdOut,
               ulimit |-> NoCmdOut, pgrep |-> NoCmdOut]
NoExtRet == [memInfo |-> MemoryInfo, ioStats |-> <<>>, fileDescs |-> NilSlice,
             fdCount |-> 0, fdLimit |-> 0, children |-> NilSlice,
             threadCount |-> 0, err |-> NilErr]

\* ------------------------------------------------------- container detector
\* program constant: id[:12]
ShortIDLen == 12
\* the shortest run of hexadecimal digits taken for a container identifier
LongHexLen == 12

IsHex(c) == IsDigit(c) \/ c \in {"a", "b", "c", "d", "e", "f"}

RECURSIVE HexRun(_)
\* the longest prefix of s made of hexadecimal digits
HexRun(s) ==
    IF s # <<>> /\ IsHex(Head(s)) THEN <<Head(s)>> \o HexRun(Tail(s)) ELSE <<>>

RECURSIVE findLongHexID(_)
\* findLongHexID: the first run of at least LongHexLen hexadecimal digits
findLongHexID(s) ==
    IF s = <<>> THEN <<>>
    ELSE LET run == HexRun(s) IN
         IF Len(run) >= LongHexLen THEN run
         ELSE findLongHexID(SubSeq(s, Len(run) + 2, Len(s)))

RECURSIVE FlagScan(_, _, _)
FlagScan(fields, i, flags) ==
    IF i > Len(fields) THEN <<>>
    ELSE IF \E f \in flags : fields[i] = f /\ i + 1 <= Len(fields)
         THEN fields[i + 1]
    ELSE IF \E f \in flags : HasPrefix(fields[i], f \o <<"=">>)
         THEN LET f == CHOOSE g \in flags : HasPrefix(fields[i], g \o <<"=">>)
              IN SubSeq(fields[i], Len(f) + 2, Len(fields[i]))
    ELSE FlagScan(fields, i + 1, flags)

\* extractFlagValue: the value following one of the flags ("--name v" or
\* "--name=v"), "" when none is present
extractFlagValue(cmdline, flags) == FlagScan(Fields(cmdline), 1, flags)

\* resolveContainerName(id, cli): the name the runtime CLI printed, "" when
\* the lookup failed
resolveContainerName(id, cli, printed) == printed

FlagName == <<"-", "-", "n", "a", "m", "e">>
FlagP == <<"-", "p">>
FlagProfile == <<"-", "-", "p", "r", "o", "f", "i", "l", "e">>

\* detectContainer; printed is what the container-runtime CLI would answer
detectContainer(cmdline, printed) ==
    LET lowerCmd == ToLower(cmdline)
        name == extractFlagValue(cmdline, {FlagName})
        profile == extractFlagValue(cmdline, {FlagP, FlagProfile})
        id == findLongHexID(cmdline)
        resolved == resolveContainerName(id, <<"c", "r", "i", "c", "t", "l">>, printed)
    IN
    IF cmdline = <<>> THEN <<>>
    ELSE IF Contains(lowerCmd, <<"d", "o", "c", "k", "e", "r">>)
         THEN (IF name # <<>> THEN <<"d", "o", "c", "k", "e", "r", ":", " ">> \o name ELSE <<"d", "o", "c", "k", "e", "r">>)
    ELSE IF Contains(lowerCmd, <<"p", "o", "d", "m", "a", "n">>)
         THEN (IF name # <<>> THEN <<"p", "o", "d", "m", "a", "n", ":", " ">> \o name ELSE <<"p", "o", "d", "m", "a", "n">>)
    ELSE IF Contains(lowerCmd, <<"m", "i", "n", "i", "k", "u", "b", "e">>)
         THEN (IF profile # <<>> THEN <<"k", "8", "s", ":", " ">> \o profile ELSE <<"k", "u", "b", "e", "r", "n", "e", "t", "e", "s">>)
    ELSE IF Contains(lowerCmd, <<"k", "i", "n", "d">>)
         THEN (IF name # <<>> THEN <<"k", "8", "s", ":", " ">> \o name ELSE <<"k", "u", "b", "e", "r", "n", "e", "t", "e", "s">>)
    ELSE IF Contains(lowerCmd, <<"k", "u", "b", "e", "p", "o", "d", "s">>)
         THEN (IF id # <<>>
               THEN (IF resolved # <<>> THEN <<"k", "8", "s", ":", " ">> \o resolved
                     ELSE <<"k", "8", "s", " ", "(">> \o SubSeq(id, 1, ShortIDLen) \o <<")">>)
               ELSE <<"k", "u", "b", "e", "r", "n", "e", "t", "e", "s">>)
    ELSE IF Contains(lowerCmd, <<"n", "e", "r", "d", "c", "t", "l">>)
         THEN (IF name # <<>> THEN <<"c", "o", "n", "t", "a", "i", "n", "e", "r", "d", ":", " ">> \o name ELSE <<"c", "o", "n", "t", "a", "i", "n", "e", "r", "d">>)
    ELSE IF Contains(lowerCmd, <<"c", "o", "n", "t", "a", "i", "n", "e", "r", "d">>)
         THEN (IF name # <<>> THEN <<"c", "o", "n", "t", "a", "i", "n", "e", "r", "d", ":", " ">> \o name ELSE <<"c", "o", "n", "t", "a", "i", "n", "e", "r", "d">>)
    ELSE <<>>

\* ---- the sampled command lines: up to MaxCtrWords pieces put together
MaxCtrWords == 3

CtrWords ==
    << <<"/", "k", "u", "b", "e", "p", "o", "d", "s">>, <<"/", "K", "u", "b", "e", "P", "o", "d", "s">>, <<"/", "d", "o", "c", "k", "e", "r", "-">>, <<"/", "p", "o", "d">>, <<"0", "1", "2", "3", "4", "5", "6", "7", "8", "9", "a", "b", "c">>,
       <<".", "s", "c", "o", "p", "e">>, <<" ", "-", "-", "n", "a", "m", "e", " ", "w", "e", "b">>, <<"/", "k", "i", "n", "d">> >>

RECURSIVE ConcatWords(_)
ConcatWords(ix) ==
    IF ix = <<>> THEN <<>> ELSE CtrWords[Head(ix)] \o ConcatWords(Tail(ix))

CtrCmdlines ==
    { ConcatWords(ix) :
        ix \in UNION {[1..n -> 1..Len(CtrWords)] : n \in 0..MaxCtrWords} }

CtrNames == { <<>>, <<"w", "e", "b">> }

\* ------------------------------------------------------ git context detector
\* program constant: for i := 0; i < 5; i++
MaxGitLevels == 5

\* ---- the inspected file system
\* depth of the deepest working directory sampled
MaxDepth == 6

RECURSIVE DirPath(_)
\* the directory at depth k below the volume root: C:\, C:\a, C:\a\b, ...
DirPath(k) ==
    IF k = 0 THEN <<"C", ":", Sep>>
    ELSE IF k = 1 THEN DirPath(0) \o <<"a">>
    ELSE DirPath(k - 1) \o <<Sep, IF k % 2 = 1 THEN "a" ELSE "b">>

DotGit == <<".", "g", "i", "t">>
HeadName == <<"H", "E", "A", "D">>
RefPrefix == <<"r", "e", "f", ":", " ">>

\* what HEAD may hold: unreadable, a symbolic ref, a detached commit id
GitHeads ==
    { [ok |-> FALSE, text |-> <<>>],
      [ok |-> TRUE, text |-> <<"r", "e", "f", ":", " ", "r", "/", "h", "/", "f", "/", "x">> \o <<"\n">>],
      [ok |-> TRUE, text |-> <<"a", "b", "1", "2">> \o <<"\n">>] }

\* the working directories: none, or a directory with or without a trailing
\* separator
GitCwds ==
    {<<>>} \cup {DirPath(d) : d \in 0..MaxDepth}
           \cup {DirPath(d) \o <<Sep>> : d \in 1..MaxDepth}

\* a file system: the depths whose directory holds a .git directory (at most
\* two), the depth whose directory holds a plain .git file (-1: none), HEAD
GitInputs ==
    { in \in [cwd : GitCwds, gitDirs : SUBSET (0..MaxDepth),
              gitFile : (-1)..MaxDepth, head : GitHeads] :
        Cardinality(in.gitDirs) <= 2 /\ in.gitFile \notin in.gitDirs }

\* os.Stat(path): the entry at path, if any
Stat(path, in) ==
    LET c == Clean(path) IN
    IF \E k \in in.gitDirs : c = PathJoin(DirPath(k), DotGit)
    THEN [ok |-> TRUE, isDir |-> TRUE]
    ELSE IF in.gitFile >= 0 /\ c = PathJoin(DirPath(in.gitFile), DotGit)
    THEN [ok |-> TRUE, isDir |-> FALSE]
    ELSE [ok |-> FALSE, isDir |-> FALSE]

\* os.ReadFile(path) of a HEAD file inside a .git directory
ReadFile(path, in) ==
    IF \E k \in in.gitDirs : Clean(path) = PathJoin(PathJoin(DirPath(k), DotGit), HeadName)
    THEN in.head
    ELSE [ok |-> FALSE, text |-> <<>>]

\* strings.TrimPrefix
TrimPrefix(s, pre) ==
    IF HasPrefix(s, pre) THEN SubSeq(s, Len(pre) + 1, Len(s)) ELSE s

\* refParts[len(refParts)-1] of strings.Split(ref, "/")
LastSlashPart(ref) ==
    LET idx == IF \E i \in 1..Len(ref) : ref[i] = "/"
               THEN CHOOSE i \in 1..Len(ref) :
                      ref[i] = "/" /\ \A j \in (i + 1)..Len(ref) : ref[j] # "/"
               ELSE 0
    IN SubSeq(ref, idx + 1, Len(ref))

\* the branch named by the HEAD file of gitDir
GitBranchOf(gitDir, in) ==
    LET head == ReadFile(PathJoin(gitDir, HeadName), in)
        headStr == TrimSpace(head.text)
    IN IF head.ok /\ HasPrefix(headStr, RefPrefix)
       THEN LastSlashPart(TrimPrefix(headStr, RefPrefix))
       ELSE <<>>

GitLoopContinuesOffByOne(i) == i <= MaxGitLevels
\* the loop condition i < 5
GitLoopContinues(i) == i < MaxGitLevels

NoGitInput == [cwd |-> <<>>, gitDirs |-> {}, gitFile |-> -1,
               head |-> [ok |-> FALSE, text |-> <<>>]]
NoGitLoc == [searchDir |-> <<>>, i |-> 0]
NoGitRet == [repo |-> <<>>, branch |-> <<>>]

VARIABLES
    pid,        \* the argument of ReadProcess
    procs,      \* the system process table (set of live PIDs)
    pc,         \* position in ReadProcess / GetProcessDetailedInfo
    info,       \* GetProcessDetailedInfo's local info
    openErr,    \* GetProcessDetailedInfo's err of the limited OpenProcess
    handles,    \* every native handle acquired so far
    defers,     \* GetProcessDetailedInfo's deferred CloseHandle calls
    snap,       \* getInfoFromSnapshot's frame: caller, handle, defers, index
    snapRet,    \* what getInfoFromSnapshot returned
    ret,        \* what GetProcessDetailedInfo returned
    result,     \* what ReadProcess returned
    tier,       \* history: the state of each tier
    fullFailed, \* history: a read of the full-access tier failed
    extIn,      \* ReadExtendedInfo: the outcome of each external tool
    extPc,      \* ReadExtendedInfo: "call" or "done"
    extRet,     \* ReadExtendedInfo: the returned tuple
    fdPc,       \* collectDarwinFDs: "start", "loop" or "done"
    fdIn,       \* lsof's output so far: lines and descriptor rows emitted
    fdSt,       \* collectDarwinFDs' locals count, samples, skipHdr
    fdRet,      \* collectDarwinFDs' returned tuple
    ctrIn,      \* detectContainer: the command line and the CLI's answer
    ctrPc,      \* detectContainer: "call" or "done"
    ctrRet,     \* detectContainer: the returned string
    gitIn,      \* detectGitInfo: cwd and the file system it looks at
    gitPc,      \* detectGitInfo: "enter", "loop" or "done"
    gitLoc,     \* detectGitInfo's locals searchDir and i
    gitRet,     \* detectGitInfo: the returned repo and branch
    gitSeen     \* history: the directories whose .git was looked up

tierVars == <<pid, procs, pc, info, openErr, handles, defers, snap, snapRet,
              ret, result, tier, fullFailed>>

extVars == <<extIn, extPc, extRet>>
fdVars == <<fdPc, fdIn, fdSt, fdRet>>
ctrVars == <<ctrIn, ctrPc, ctrRet>>
gitVars == <<gitIn, gitPc, gitLoc, gitRet, gitSeen>>
nonTier == <<extVars, fdVars, ctrVars, gitVars>>
nonExt == <<tierVars, fdVars, ctrVars, gitVars>>
nonFD == <<tierVars, extVars, ctrVars, gitVars>>
nonCtr == <<tierVars, extVars, fdVars, gitVars>>
nonGit == <<tierVars, extVars, fdVars, ctrVars>>

NoSnap == [caller |-> "none", handle |-> 0, defers |-> <<>>, idx |-> 0]
NoSnapRet == [ppid |-> 0, exe |-> <<>>, err |-> NoErr]

TierInit ==
    /\ pid \in 1..MaxPid
    /\ procs \in (SUBSET (1..MaxPid)) \ {{}}
    /\ pc = "openFull"
    /\ info = Win32ProcessInfo
    /\ openErr = NoErr
    /\ handles = <<>>
    /\ defers = <<>>
    /\ snap = NoSnap
    /\ snapRet = NoSnapRet
    /\ ret = [info |-> Win32ProcessInfo, err |-> NoErr]
    /\ result = [proc |-> ZeroProcess, err |-> NoErr]
    /\ tier = [full |-> "NotAttempted", limited |-> "NotAttempted",
               snapshot |-> "NotAttempted"]
    /\ fullFailed = FALSE

\* OpenProcess succeeds only for a live process, and may be refused
OpenProcessOutcomes == IF pid \in procs THEN {NoErr, "Access is denied"}
                       ELSE {"The parameter is incorrect"}

\* return inf, e from GetProcessDetailedInfo: the deferred closes run
Return(inf, e) ==
    /\ ret' = [info |-> inf, err |-> e]
    /\ handles' = RunDefers(handles, defers)
    /\ defers' = <<>>
    /\ pc' = "readProcess"

\* handle, err := syscall.OpenProcess(QUERY_INFORMATION|VM_READ, ...)
OpenFull ==
    /\ pc = "openFull"
    /\ \E e \in OpenProcessOutcomes :
         IF e = NoErr
         THEN /\ handles' = OpenHandle(handles, "full")
              /\ defers' = DeferCloseHandle(defers, Len(handles) + 1)
              /\ pc' = "getFull"
              /\ tier' = [tier EXCEPT !.full = "InProgress"]
         ELSE /\ pc' = "openLimited"
              /\ tier' = [tier EXCEPT !.full = "Failed"]
              /\ UNCHANGED <<handles, defers>>
    /\ UNCHANGED <<pid, procs, info, openErr, snap, snapRet, ret, result,
                   fullFailed>>
    /\ UNCHANGED nonTier

\* err := getFullProcessInfo(handle, pid, &info)
GetFull ==
    /\ pc = "getFull"
    /\ \E o \in FullOutcomes :
         LET r == getFullProcessInfo(pid, info, o) IN
         /\ info' = r.info
         /\ fullFailed' = FullReadFailed(o)
         /\ tier' = [tier EXCEPT !.full = IF r.err = NoErr THEN "Succeeded"
                                           ELSE "Failed"]
         /\ IF AfterFull(r.err) = "return"
            THEN Return(r.info, NoErr)
            ELSE /\ pc' = AfterFull(r.err)
                 /\ UNCHANGED <<handles, defers, ret>>
    /\ UNCHANGED <<pid, procs, openErr, snap, snapRet, result>>
    /\ UNCHANGED nonTier

\* handleLimited, err := syscall.OpenProcess(QUERY_LIMITED_INFORMATION, ...)
OpenLimited ==
    /\ pc = "openLimited"
    /\ \E e \in OpenProcessOutcomes :
         /\ openErr' = e
         /\ IF e # NoErr
            THEN /\ pc' = "snapCreate"
                 /\ snap' = [NoSnap EXCEPT !.caller = "snapshotTier"]
                 /\ tier' = [tier EXCEPT !.limited = "Failed",
                                         !.snapshot = "InProgress"]
                 /\ UNCHANGED <<handles, defers>>
            ELSE /\ handles' = OpenHandle(handles, "limited")
                 /\ defers' = DeferCloseHandle(defers, Len(handles) + 1)
                 /\ pc' = "limited"
                 /\ tier' = [tier EXCEPT !.limited = "InProgress"]
                 /\ UNCHANGED snap
    /\ UNCHANGED <<pid, procs, info, snapRet, ret, result, fullFailed>>
    /\ UNCHANGED nonTier

\* limited tier up to the snapshot call: start time, image name, command line
Limited ==
    /\ pc = "limited"
    /\ \E timesOk \in BOOLEAN, nameOk \in BOOLEAN :
         LET exePath == getProcessImageName(pid, nameOk)
             i1 == [info EXCEPT !.StartedAt = getProcessStartTime(pid, timesOk),
                                !.Exe = exePath]
         IN info' = IF exePath # <<>>
                    THEN [i1 EXCEPT !.CommandLine = Base(exePath)]
                    ELSE i1
    /\ pc' = "snapCreate"
    /\ snap' = [NoSnap EXCEPT !.caller = "limitedFinish"]
    /\ UNCHANGED <<pid, procs, openErr, handles, defers, snapRet, ret, result,
                   tier, fullFailed>>
    /\ UNCHANGED nonTier

\* return from getInfoFromSnapshot: its deferred close runs
SnapReturn(p, x, e) ==
    /\ snapRet' = [ppid |-> p, exe |-> x, err |-> e]
    /\ handles' = RunDefers(handles, snap.defers)
    /\ snap' = [snap EXCEPT !.defers = <<>>]
    /\ pc' = snap.caller

\* snap := CreateToolhelp32Snapshot(...); invalid handle returns an error
SnapCreate ==
    /\ pc = "snapCreate"
    /\ \E ok \in BOOLEAN :
         IF ok
         THEN /\ handles' = OpenHandle(handles, "snapshot")
              /\ snap' = [snap EXCEPT !.handle = Len(handles) + 1,
                            !.defers = DeferCloseHandle(snap.defers, Len(handles) + 1)]
              /\ pc' = "snapFirst"
              /\ UNCHANGED snapRet
         ELSE SnapReturn(0, <<>>, "failed to create snapshot")
    /\ UNCHANGED <<pid, procs, info, openErr, defers, ret, result, tier,
                   fullFailed>>
    /\ UNCHANGED nonTier

\* Process32First
SnapFirst ==
    /\ pc = "snapFirst"
    /\ \E ok \in BOOLEAN :
         IF ok /\ Len(SnapshotEntries(procs)) > 0
         THEN /\ snap' = [snap EXCEPT !.idx = 1]
              /\ pc' = "snapLoop"
              /\ UNCHANGED <<handles, snapRet>>
         ELSE SnapReturn(0, <<>>, "failed to get first process")
    /\ UNCHANGED <<pid, procs, info, openErr, defers, ret, result, tier,
                   fullFailed>>
    /\ UNCHANGED nonTier

\* one iteration of the scan: compare pe32, then Process32Next
SnapLoop ==
    /\ pc = "snapLoop"
    /\ LET pe32 == SnapshotEntries(procs)[snap.idx] IN
       IF pe32.ProcessID = pid
       THEN SnapReturn(pe32.ParentProcessID, UTF16ToString(pe32.ExeFile), NoErr)
       ELSE \E ok \in BOOLEAN :
              IF ok /\ snap.idx < Len(SnapshotEntries(procs))
              THEN /\ snap' = [snap EXCEPT !.idx = @ + 1]
                   /\ UNCHANGED <<handles, snapRet, pc>>
              ELSE SnapReturn(0, <<>>, "process not found in snapshot")
    /\ UNCHANGED <<pid, procs, info, openErr, defers, ret, result, tier,
                   fullFailed>>
    /\ UNCHANGED nonTier

\* snapshot-only tier after getInfoFromSnapshot returned
SnapshotTier ==
    /\ pc = "snapshotTier"
    /\ IF snapRet.err = NoErr
       THEN LET i == [info EXCEPT !.PPID = snapRet.ppid, !.Exe = snapRet.exe,
                                  !.CommandLine = snapRet.exe]
            IN /\ info' = i
               /\ Return(i, NoErr)
               /\ tier' = [tier EXCEPT !.snapshot = "Succeeded"]
       ELSE /\ Return(info, openErr)
            /\ tier' = [tier EXCEPT !.snapshot = "Failed"]
            /\ UNCHANGED info
    /\ UNCHANGED <<pid, procs, openErr, snap, snapRet, result, fullFailed>>
    /\ UNCHANGED nonTier

\* limited tier after getInfoFromSnapshot returned: ppid, _, _ := ...
LimitedFinish ==
    /\ pc = "limitedFinish"
    /\ LET i == [info EXCEPT !.PPID = snapRet.ppid, !.Cwd = <<>>,
                             !.Env = EmptySlice]
       IN /\ info' = i
          /\ Return(i, NoErr)
    /\ tier' = [tier EXCEPT !.limited = "Succeeded"]
    /\ UNCHANGED <<pid, procs, openErr, snap, snapRet, result, fullFailed>>
    /\ UNCHANGED nonTier

\* ReadProcess after GetProcessDetailedInfo returned
ReadProcess ==
    /\ pc = "readProcess"
    /\ result' =
         IF ret.err # NoErr
         THEN [proc |-> ZeroProcess, err |-> ret.err]
         ELSE [proc |->
                 [PID |-> pid, PPID |-> ret.info.PPID,
                  Command |-> IF ret.info.Exe # <<>> THEN Base(ret.info.Exe)
                              ELSE <<>>,
                  Cmdline |-> ret.info.CommandLine, Exe |-> ret.info.Exe,
                  StartedAt |-> ret.info.StartedAt,
                  WorkingDir |-> ret.info.Cwd,
                  Health |-> <<"healthy">>, Forked |-> <<"unknown">>,
                  Env |-> ret.info.Env],
               err |-> NoErr]
    /\ pc' = "done"
    /\ UNCHANGED <<pid, procs, info, openErr, handles, defers, snap, snapRet,
                   ret, tier, fullFailed>>
    /\ UNCHANGED nonTier

TierNext ==
    \/ OpenFull \/ GetFull \/ OpenLimited \/ Limited \/ SnapCreate
    \/ SnapFirst \/ SnapLoop \/ SnapshotTier \/ LimitedFinish \/ ReadProcess

\* no acquisition in progress
TierIdle ==
    /\ pid = 1 /\ procs = {1} /\ pc = "idle"
    /\ info = Win32ProcessInfo /\ openErr = NoErr
    /\ handles = <<>> /\ defers = <<>>
    /\ snap = NoSnap /\ snapRet = NoSnapRet
    /\ ret = [info |-> Win32ProcessInfo, err |-> NoErr]
    /\ result = [proc |-> ZeroProcess, err |-> NoErr]
    /\ tier = [full |-> "NotAttempted", limited |-> "NotAttempted",
               snapshot |-> "NotAttempted"]
    /\ fullFailed = FALSE

\* ------------------------------------------------------ ReadExtendedInfo
ExtIdle == extIn = NoExtInput /\ extPc = "idle" /\ extRet = NoExtRet

ExtInit == extIn \in ExtInputs /\ extPc = "call" /\ extRet = NoExtRet

ReadExtendedInfoCall ==
    /\ extPc = "call"
    /\ extRet' = ReadExtendedInfo(extIn)
    /\ extPc' = "done"
    /\ UNCHANGED extIn
    /\ UNCHANGED nonExt

\* ------------------------------------------- collectDarwinFDs, line by line
NoFDIn == [lines |-> 0, entries |-> 0, hdr |-> FALSE]
NoFDRet == [count |-> 0, samples |-> NilSlice, err |-> NilErr]

FDIdle == fdPc = "idle" /\ fdIn = NoFDIn /\ fdSt = FDLoopStart /\ fdRet = NoFDRet

FDInit == fdPc = "start" /\ fdIn = NoFDIn /\ fdSt = FDLoopStart /\ fdRet = NoFDRet

\* out, err := cmd.Output()
FDExec ==
    /\ fdPc = "start"
    /\ \E failed \in BOOLEAN :
         IF failed
         THEN /\ fdRet' = [count |-> 0, samples |-> NilSlice, err |-> <<"lsof">>]
              /\ fdPc' = "done"
         ELSE /\ fdPc' = "loop"
              /\ UNCHANGED fdRet
    /\ UNCHANGED <<fdIn, fdSt>>
    /\ UNCHANGED nonFD

\* the next line of output is blank
FDBlankLine ==
    /\ fdPc = "loop" /\ fdIn.lines < MaxLsofLines
    /\ fdSt' = FDLoopBody(fdSt, BlankLine)
    /\ fdIn' = [fdIn EXCEPT !.lines = @ + 1]
    /\ UNCHANGED <<fdPc, fdRet>>
    /\ UNCHANGED nonFD

\* the next line of output is lsof's header
FDHeaderLine ==
    /\ fdPc = "loop" /\ fdIn.lines < MaxLsofLines /\ ~fdIn.hdr
    /\ fdSt' = FDLoopBody(fdSt, LsofHeader)
    /\ fdIn' = [fdIn EXCEPT !.lines = @ + 1, !.hdr = TRUE]
    /\ UNCHANGED <<fdPc, fdRet>>
    /\ UNCHANGED nonFD

\* the next line of output is a descriptor row
FDEntryLine ==
    /\ fdPc = "loop" /\ fdIn.lines < MaxLsofLines /\ fdIn.hdr
    /\ \E truncated \in BOOLEAN :
         fdSt' = FDLoopBody(fdSt, LsofEntry(fdIn.entries + 1, truncated))
    /\ fdIn' = [fdIn EXCEPT !.lines = @ + 1, !.entries = @ + 1]
    /\ UNCHANGED <<fdPc, fdRet>>
    /\ UNCHANGED nonFD

\* the output is exhausted: return count, samples, nil
FDReturn ==
    /\ fdPc = "loop"
    /\ fdRet' = [count |-> fdSt.count, samples |-> fdSt.samples, err |-> NilErr]
    /\ fdPc' = "done"
    /\ UNCHANGED <<fdIn, fdSt>>
    /\ UNCHANGED nonFD

FDNext == FDExec \/ FDBlankLine \/ FDHeaderLine \/ FDEntryLine \/ FDReturn

\* ------------------------------------------------------- detectContainer
CtrIdle == ctrIn = [cmdline |-> <<>>, printed |-> <<>>] /\ ctrPc = "idle" /\ ctrRet = <<>>

CtrInit ==
    /\ ctrIn \in [cmdline : CtrCmdlines, printed : CtrNames]
    /\ ctrPc = "call"
    /\ ctrRet = <<>>

DetectContainerCall ==
    /\ ctrPc = "call"
    /\ ctrRet' = detectContainer(ctrIn.cmdline, ctrIn.printed)
    /\ ctrPc' = "done"
    /\ UNCHANGED ctrIn
    /\ UNCHANGED nonCtr

\* --------------------------------------------------------- detectGitInfo
GitIdle ==
    /\ gitIn = NoGitInput /\ gitPc = "idle" /\ gitLoc = NoGitLoc
    /\ gitRet = NoGitRet /\ gitSeen = <<>>

GitInit ==
    /\ gitIn \in GitInputs /\ gitPc = "enter" /\ gitLoc = NoGitLoc
    /\ gitRet = NoGitRet /\ gitSeen = <<>>

\* if cwd == "" { return "", "" }; searchDir := cwd; i := 0
GitEnter ==
    /\ gitPc = "enter"
    /\ IF gitIn.cwd = <<>>
       THEN /\ gitPc' = "done"
            /\ gitRet' = NoGitRet
            /\ UNCHANGED gitLoc
       ELSE /\ gitPc' = "loop"
            /\ gitLoc' = [searchDir |-> gitIn.cwd, i |-> 0]
            /\ UNCHANGED gitRet
    /\ UNCHANGED <<gitIn, gitSeen>>
    /\ UNCHANGED nonGit

\* the body of the loop for the locals loc: where control goes, the locals
\* and the return value it leaves
GitLoopBody(loc, in) ==
    LET gitDir == PathJoin(loc.searchDir, DotGit)
        fi == Stat(gitDir, in)
        parent == Dir(loc.searchDir)
    IN IF fi.ok /\ fi.isDir
       THEN [pc |-> "done", loc |-> loc,
             ret |-> [repo |-> Base(loc.searchDir),
                      branch |-> GitBranchOf(gitDir, in)]]
       ELSE IF parent = loc.searchDir
       THEN [pc |-> "done", loc |-> loc, ret |-> NoGitRet]
       ELSE [pc |-> "loop", loc |-> [searchDir |-> parent, i |-> loc.i + 1],
             ret |-> NoGitRet]

\* one iteration of the walk: look for searchDir/.git, else go to the parent
GitIterate ==
    /\ gitPc = "loop" /\ GitLoopContinues(gitLoc.i)
    /\ gitSeen' = Append(gitSeen, gitLoc.searchDir)
    /\ gitPc' = GitLoopBody(gitLoc, gitIn).pc
    /\ gitLoc' = GitLoopBody(gitLoc, gitIn).loc
    /\ gitRet' = GitLoopBody(gitLoc, gitIn).ret
    /\ UNCHANGED gitIn
    /\ UNCHANGED nonGit

\* the loop ran out of levels: return "", ""
GitGiveUp ==
    /\ gitPc = "loop" /\ ~GitLoopContinues(gitLoc.i)
    /\ gitRet' = NoGitRet
    /\ gitPc' = "done"
    /\ UNCHANGED <<gitIn, gitLoc, gitSeen>>
    /\ UNCHANGED nonGit

GitNext == GitEnter \/ GitIterate \/ GitGiveUp

\* -------------------------------------------------------- specifications
vars == <<tierVars, extVars, fdVars, ctrVars, gitVars>>

Init == TierInit /\ ExtIdle /\ FDIdle /\ CtrIdle /\ GitIdle
Next == TierNext
Spec == Init /\ [][Next]_vars

InitExt == TierIdle /\ ExtInit /\ FDIdle /\ CtrIdle /\ GitIdle
NextExt == ReadExtendedInfoCall
SpecExt == InitExt /\ [][NextExt]_vars

InitFD == TierIdle /\ ExtIdle /\ FDInit /\ CtrIdle /\ GitIdle
NextFD == FDNext
SpecFD == InitFD /\ [][NextFD]_vars

InitContainer == TierIdle /\ ExtIdle /\ FDIdle /\ CtrInit /\ GitIdle
NextContainer == DetectContainerCall
SpecContainer == InitContainer /\ [][NextContainer]_vars

InitGit == TierIdle /\ ExtIdle /\ FDIdle /\ CtrIdle /\ GitInit
NextGit == GitNext
SpecGit == InitGit /\ [][NextGit]_vars

\* ================================================================ claims
Tiers == {"full", "limited", "snapshot"}

\* C1: when every tier is exhausted for a live PID, ReadProcess still returns
\* a Process carrying the fields the earlier tiers populated (PPID, StartedAt)
\* and no error.
C1_ExhaustedReturnsPartial ==
    (/\ pc = "done" /\ pid \in procs /\ tier.snapshot = "Failed"
     /\ (info.StartedAt # 0 \/ info.PPID # 0))
        => /\ result.err = NoErr
           /\ result.proc.PPID = info.PPID
           /\ result.proc.StartedAt = info.StartedAt

\* C2: ReadProcess fails only for a PID absent from the process table; for a
\* live PID it returns a Process with that PID and no error.
C2_FailsOnlyWhenAbsent ==
    pc = "done" =>
        /\ result.err # NoErr => pid \notin procs
        /\ pid \in procs => result.proc.PID = pid

\* C3: every Process ReadProcess returns without error has a non-nil Env, so
\* ToEnvJSON renders Env as a list and not null; when the full-access tier did
\* not resolve it, Env is empty and WorkingDir is the empty string.
C3_EnvNeverNil ==
    (pc = "done" /\ result.err = NoErr)
        => /\ ~result.proc.Env.null
           /\ ToEnvJSON([Process |-> result.proc, Ancestry |-> <<>>]).Env.kind
                = "array"
           /\ tier.full # "Succeeded"
                => result.proc.Env.items = <<>> /\ result.proc.WorkingDir = <<>>

\* C4: tier degradation is monotonic: the limited tier is attempted only after
\* the full tier failed, the snapshot-only tier only after the limited handle
\* open failed; once a tier succeeds the function returns, no other tier is
\* attempted afterwards and no finished tier is run again.
C4_TierDegradationMonotonic ==
    /\ [](/\ tier.limited # "NotAttempted" => tier.full = "Failed"
          /\ tier.snapshot # "NotAttempted" => tier.limited = "Failed"
          /\ (\E t \in Tiers : tier[t] = "Succeeded")
                => pc \in {"readProcess", "done"})
    /\ [][/\ (\E t \in Tiers : tier[t] = "Succeeded") => tier' = tier
          /\ \A t \in Tiers :
                tier[t] \in {"Failed", "Succeeded"} => tier'[t] = tier[t]]_vars

\* C4 witness: the acquisition degraded through all three tiers and the
\* snapshot-only tier resolved the PID.
C4_Witness ==
    /\ pc = "done"
    /\ tier = [full |-> "Failed", limited |-> "Failed", snapshot |-> "Succeeded"]

\* C5: when the process-status query fails or yields fewer than 3 fields while
\* descriptor sampling succeeds, MemoryInfo stays zero, the descriptor count
\* and samples are populated, and the returned failure value is non-nil.
C5_MemoryFailureReported ==
    (/\ extPc = "done"
     /\ readDarwinMemory(extIn.ps).err # NilErr
     /\ ~extIn.lsof.err
     /\ collectDarwinFDs(extIn.lsof).count > 0)
        => /\ extRet.memInfo = MemoryInfo
           /\ extRet.fdCount = collectDarwinFDs(extIn.lsof).count
           /\ extRet.fileDescs = collectDarwinFDs(extIn.lsof).samples
           /\ extRet.err # NilErr

\* C6: for a kubepods cgroup path holding a long hexadecimal identifier whose
\* name resolution fails, detectContainer reports "k8s (<first 12 characters
\* of the identifier>)", whatever other engine markers the path contains.
C6_CgroupIdTruncated ==
    (/\ ctrPc = "done"
     /\ HasPrefix(ctrIn.cmdline, <<"/">>)
     /\ Contains(ToLower(ctrIn.cmdline), <<"k", "u", "b", "e", "p", "o", "d", "s">>)
     /\ findLongHexID(ctrIn.cmdline) # <<>>
     /\ ctrIn.printed = <<>>)
        => ctrRet = <<"k", "8", "s", " ", "(">> \o SubSeq(findLongHexID(ctrIn.cmdline), 1, 12)
                    \o <<")">>

\* C7: collectDarwinFDs returns at most 10 samples and at most count of them,
\* and every sample is the summary of one of the first 10 descriptor rows
\* after the header.
C7_SamplesAreFirstTen ==
    fdPc = "done" =>
        /\ Len(fdRet.samples.items) <= 10
        /\ Len(fdRet.samples.items) <= fdRet.count
        /\ \A i \in 1..Len(fdRet.samples.items) :
             \E k \in 1..10 :
                fdRet.samples.items[i]
                  = summarizeLsofLine(TrimSpace(LsofEntry(k, FALSE)))

\* C8: every native handle (full-access, limited-access, snapshot) is closed
\* exactly once by the time the function that acquired it has returned, and
\* never more than once.
C8_HandlesReleasedOnce ==
    /\ \A h \in 1..Len(handles) : handles[h].closes <= 1
    /\ pc \in {"readProcess", "done"}
         => \A h \in 1..Len(handles) : handles[h].closes = 1
    /\ pc \in {"snapshotTier", "limitedFinish"}
         => \A h \in 1..Len(handles) :
               handles[h].kind = "snapshot" => handles[h].closes = 1

\* C8 witness: a run that acquired all three kinds of handle has returned.
C8_Witness ==
    /\ pc = "done"
    /\ {handles[h].kind : h \in 1..Len(handles)} = {"full", "limited", "snapshot"}

\* C9: the full-access tier never reports success after one of its reads
\* (kernel query, control block, process parameters, or a string buffer)
\* has failed.
C9_FullTierAbortsOnReadFailure ==
    fullFailed => tier.full # "Succeeded"

\* C10: when the snapshot-only tier resolves the PID, the facts hold the
\* snapshot's parent PID and image filename and every other field (command
\* line, start time, working directory, environment) is zero.
C10_SnapshotOnlyFields ==
    (pc = "done" /\ tier.snapshot = "Succeeded")
        => /\ result.proc.PPID = PPIDOf(pid)
           /\ result.proc.Exe = ImageName(pid)
           /\ result.proc.Cmdline = <<>>
           /\ result.proc.StartedAt = 0
           /\ result.proc.WorkingDir = <<>>
           /\ result.proc.Env = NilSlice

\* the depth of directory dir below the volume root, -1 if it is not one of
\* the sampled directories
GitDepth(dir) ==
    IF \E k \in 0..MaxDepth : Clean(dir) = DirPath(k)
    THEN CHOOSE k \in 0..MaxDepth : Clean(dir) = DirPath(k)
    ELSE -1

\* the name of the directory at depth k
GitLevelName(k) ==
    IF k = 0 THEN <<Sep>> ELSE IF k % 2 = 1 THEN <<"a">> ELSE <<"b">>

\* the examined directories that hold a .git directory, as depths
GitHolders == {GitDepth(gitSeen[j]) : j \in 1..Len(gitSeen)} \cap gitIn.gitDirs

\* C11 (result): once detectGitInfo has returned, it has examined at most 5
\* directories, these are the working directory and then its ancestors in
\* order, the walk stopped short only at a match or at the root, the repo is
\* the name of the nearest examined directory holding a .git directory, and
\* repo and branch are empty when cwd is empty or no examined directory
\* holds one.
GitResultOK ==
    gitPc = "done" =>
        /\ Len(gitSeen) <= 5
        /\ gitIn.cwd = <<>> => gitSeen = <<>> /\ gitRet = NoGitRet
        /\ gitIn.cwd # <<>> => gitSeen # <<>> /\ gitSeen[1] = gitIn.cwd
        /\ \A j \in 1..Len(gitSeen) : GitDepth(gitSeen[j]) >= 0
        /\ \A j \in 1..(Len(gitSeen) - 1) :
              /\ GitDepth(gitSeen[j + 1]) <= GitDepth(gitSeen[j])
              /\ GitDepth(gitSeen[j + 1]) >= GitDepth(gitSeen[j]) - 1
        /\ IF GitHolders # {}
           THEN LET near == CHOOSE k \in GitHolders : \A m \in GitHolders : m <= k
                IN /\ gitRet.repo = GitLevelName(near)
                   /\ GitDepth(gitSeen[Len(gitSeen)]) = near
           ELSE /\ gitRet = NoGitRet
                /\ gitIn.cwd # <<>>
                     => \/ Len(gitSeen) = 5
                        \/ GitDepth(gitSeen[Len(gitSeen)]) = 0

\* an upper bound on the steps detectGitInfo may still take
GitVariant ==
    IF gitPc = "enter" THEN 8
    ELSE IF gitPc = "loop" THEN 7 - gitLoc.i
    ELSE 0

\* C11: detectGitInfo always terminates (every step lowers a measure that
\* never goes below zero, and the measure is zero only once it has returned),
\* after examining at most 5 directories (the working directory and its
\* ancestors, stopping early at the root); it returns the base name of the
\* nearest examined directory that holds a .git directory, and empty repo and
\* branch when cwd is empty or no examined directory holds one.
C11_GitWalkBounded ==
    /\ [](/\ Len(gitSeen) <= 5
          /\ GitResultOK
          /\ GitVariant >= 0
          /\ GitVariant = 0 <=> gitPc = "done"
          /\ gitPc = "loop" => gitLoc.i <= 5)
    /\ [][GitVariant' < GitVariant]_vars

\* C11 witness: the walk found the repository in the fifth directory it
\* examined.
C11_Witness ==
    /\ gitPc = "done"
    /\ Len(gitSeen) = 5
    /\ gitRet.repo # <<>>
    /\ gitRet.branch = <<"x">>

====
